---- MODULE Spec2Model ----
(***************************************************************************)
(* Model of the BIFFes schedule scripts:                                   *)
(*   scripts/extract-feb-schedule.py  (normalize_title, find_film_match,   *)
(*       load_films, convert_to_schedule_format, main: append-mode merge)  *)
(*   scripts/merge-schedule.py        (main: replace-mode merge)           *)
(* Strings are sequences of one-character strings, so that upper-casing,   *)
(* stripping, whitespace collapsing and substring tests are computed.      *)
(***************************************************************************)
EXTENDS Integers, Sequences, FiniteSets, TLC

VARIABLES
    pc,            \* position of the running script / applied function
    title,         \* the title handed to normalize_title / find_film_match
    normalized,    \* normalize_title(title)
    renormalized,  \* normalize_title applied to its own result
    match,         \* value returned by find_film_match
    day_films,     \* a day's table (FEB_3_FILMS, ...) handed to the assembler
    date,          \* the date handed to the assembler
    day,           \* the ScheduleDay convert_to_schedule_format returns
    films,         \* data['films'] of biffes_data.json: the catalog document
    films_db,      \* the dict load_films() returns, in insertion order
    script,        \* the script that runs: "extract" (append) or "merge" (replace)
    store_file,    \* content of schedule_data.json on disk, as written chunks
    prior,         \* content of schedule_data.json when the run started
    day_tables,    \* the day tables of extract-feb-schedule.py, with their dates
    day_files,     \* the files of schedule-extracted/, by day number
    existing,      \* the store document merge-schedule.py loads
    schedule_data, \* the store document main() builds and writes
    new_days,      \* new_days (extract) / days (merge) of main()
    summary,       \* total_showings, matched and unmatched of main()
    failed_at,     \* the step at which the run raised, "" while it has not
    runs,          \* number of runs of the scripts started so far
    other,         \* a second title handed to normalize_title
    other_normalized  \* normalize_title(other)

\* state of the specifications that apply one function
fnvars == <<title, normalized, renormalized, match, day_films, date, day>>

\* the catalog
dbvars == <<films, films_db>>

\* state of the scripts' runs
runvars == <<script, store_file, prior, day_tables, day_files, existing, schedule_data,
             new_days, summary, failed_at, runs>>

\* state of the specification that normalizes two titles
pairvars == <<other, other_normalized>>

vars == <<pc, fnvars, dbvars, runvars, pairvars>>

-----------------------------------------------------------------------------
(* Bounds *)

MaxTitleLen == 3

MaxFilms == 2

MaxTuples == 3

MaxScreens == 2

MaxOldDays == 2

MaxNewDays == 2

MaxDayFiles == 2

\* runs of the scripts in one behaviour
MaxRuns == 2

-----------------------------------------------------------------------------
(* Characters and strings *)

\* characters of the modelled titles: lower and upper case letters,
\* whitespace (space, tab) and punctuation
Chars == {"a", "A", "B", " ", "\t", "-"}

\* what Python's str.strip() and the pattern \s treat as whitespace
Whitespace == {" ", "\t"}

\* what the pattern \w matches
WordChars == {"a", "A", "B"}

Strings(n) == UNION {[1..k -> Chars] : k \in 0..n}

\* Python None, as a value comparable with the strings
None == <<"None">>

\* str.upper() on one character
UpperChar(c) == IF c = "a" THEN "A" ELSE c

\* str.upper()
Upper(s) == [i \in 1..Len(s) |-> UpperChar(s[i])]

RECURSIVE LStrip(_)
LStrip(s) ==
    IF s # <<>> /\ Head(s) \in Whitespace THEN LStrip(Tail(s)) ELSE s

RECURSIVE RStrip(_)
RStrip(s) ==
    IF s # <<>> /\ s[Len(s)] \in Whitespace
    THEN RStrip(SubSeq(s, 1, Len(s) - 1))
    ELSE s

\* str.strip()
Strip(s) == RStrip(LStrip(s))

\* re.sub(r'\s+', ' ', s): every maximal run of whitespace becomes one space
RECURSIVE CollapseWhitespace(_)
CollapseWhitespace(s) ==
    IF s = <<>> THEN <<>>
    ELSE IF Head(s) \in Whitespace
         THEN <<" ">> \o CollapseWhitespace(LStrip(s))
         ELSE <<Head(s)>> \o CollapseWhitespace(Tail(s))

\* re.sub(r'[^\w\s]', '', s): drop what is neither a word character nor whitespace
RemovePunctuation(s) ==
    SelectSeq(s, LAMBDA c : c \in WordChars \/ c \in Whitespace)

normalize_title(t) ==
    RemovePunctuation(CollapseWhitespace(Strip(Upper(t))))

-----------------------------------------------------------------------------
(* The film catalog *)

\* a film of the catalog document: its place in data['films'] and its title
Film(i, t) == [id |-> i, title |-> t]

\* what find_film_match returns when nothing matches (Python None)
NoFilm == [id |-> 0, title |-> None]

\* d[k] = v on a dict kept as a sequence of entries in insertion order:
\* an existing key keeps its place and takes the new value
DictSet(d, k, v) ==
    IF \E i \in 1..Len(d) : d[i].key = k
    THEN [i \in 1..Len(d) |-> IF d[i].key = k THEN [key |-> k, film |-> v] ELSE d[i]]
    ELSE Append(d, [key |-> k, film |-> v])

\* {film['title'].upper().strip(): film for film in data['films']}
RECURSIVE LoadFrom(_, _, _)
LoadFrom(doc, i, d) ==
    IF i > Len(doc) THEN d
    ELSE LoadFrom(doc, i + 1, DictSet(d, Strip(Upper(doc[i])), Film(i, doc[i])))

load_films(doc) == LoadFrom(doc, 1, <<>>)

\* Python's `a in b` on strings
IsSubstring(a, b) ==
    \E i \in 0..(Len(b) - Len(a)) : SubSeq(b, i + 1, i + Len(a)) = a

\* first loop of find_film_match: the first entry whose normalized key equals
\* the normalized title, from entry i on; NoFilm when the loop falls through
RECURSIVE DirectMatch(_, _, _)
DirectMatch(norm, db, i) ==
    IF i > Len(db) THEN NoFilm
    ELSE IF normalize_title(db[i].key) = norm THEN db[i].film
    ELSE DirectMatch(norm, db, i + 1)

\* second loop of find_film_match
RECURSIVE PartialMatch(_, _, _)
PartialMatch(norm, db, i) ==
    IF i > Len(db) THEN NoFilm
    ELSE LET db_norm == normalize_title(db[i].key)
         IN  IF IsSubstring(norm, db_norm) \/ IsSubstring(db_norm, norm)
             THEN db[i].film
             ELSE PartialMatch(norm, db, i + 1)

\* one loop that takes the first entry matching either way
RECURSIVE AnyMatch(_, _, _)
AnyMatch(norm, db, i) ==
    IF i > Len(db) THEN NoFilm
    ELSE LET db_norm == normalize_title(db[i].key)
         IN  IF db_norm = norm \/ IsSubstring(norm, db_norm) \/ IsSubstring(db_norm, norm)
             THEN db[i].film
             ELSE AnyMatch(norm, db, i + 1)

find_film_match_single_loop(t, db) == AnyMatch(normalize_title(t), db, 1)

find_film_match(t, db) ==
    LET norm   == normalize_title(t)
        direct == DirectMatch(norm, db, 1)
    IN  IF direct # NoFilm THEN direct ELSE PartialMatch(norm, db, 1)

-----------------------------------------------------------------------------
(* The schedule assembler *)

\* Time slots per screen type
TIME_SLOTS ==
    [ screen       |-> <<"10:00", "12:30", "14:50", "17:10", "19:40">>,
      forum        |-> <<"11:00", "15:00", "18:00">>,
      openair      |-> <<"19:00">>,
      rajkumar     |-> <<"10:30", "14:00", "17:30">>,
      banashankari |-> <<"10:30", "15:00", "18:00">> ]

\* the venues convert_to_schedule_format loops over after the cinepolis screens
OtherVenues == <<"rajkumar", "banashankari", "openair", "forum">>

\* a table with no venue key at all
NoTables ==
    [ cinepolis    |-> [present |-> FALSE, screens |-> <<>>],
      rajkumar     |-> [present |-> FALSE, films |-> <<>>],
      banashankari |-> [present |-> FALSE, films |-> <<>>],
      openair      |-> [present |-> FALSE, films |-> <<>>],
      forum        |-> [present |-> FALSE, films |-> <<>>] ]

NoDay == [date |-> "", dayNumber |-> 0, label |-> "", screenings |-> <<>>]

\* the country and language fields taken from each other's position
Showing_fields_crossed(film_data) ==
    [ time     |-> film_data[1],
      film     |-> film_data[2],
      director |-> film_data[3],
      country  |-> film_data[6],
      year     |-> film_data[5],
      language |-> film_data[4],
      duration |-> film_data[7] ]

\* the dict built from one 7-tuple
\* (time, film, director, country, year, language, duration)
Showing(film_data) ==
    [ time     |-> film_data[1],
      film     |-> film_data[2],
      director |-> film_data[3],
      country  |-> film_data[4],
      year     |-> film_data[5],
      language |-> film_data[6],
      duration |-> film_data[7] ]

\* times assigned by position from the slot table of the screens instead of
\* taken from the tuples
Showings_slot_times(films_list) ==
    [ i \in 1..Len(films_list) |->
        [ time     |-> IF i <= Len(TIME_SLOTS.screen)
                       THEN TIME_SLOTS.screen[i] ELSE films_list[i][1],
          film     |-> films_list[i][2],
          director |-> films_list[i][3],
          country  |-> films_list[i][4],
          year     |-> films_list[i][5],
          language |-> films_list[i][6],
          duration |-> films_list[i][7] ] ]

\* the inner loop: one showing per tuple, in order
Showings(films_list) == [i \in 1..Len(films_list) |-> Showing(films_list[i])]

\* the cinepolis branch: one Screening per screen key, in the dict's order
CinepolisScreenings(tables) ==
    IF tables.cinepolis.present
    THEN [ i \in 1..Len(tables.cinepolis.screens) |->
             [ venue    |-> "cinepolis",
               screen   |-> tables.cinepolis.screens[i].screen,
               showings |-> Showings(tables.cinepolis.screens[i].films) ] ]
    ELSE <<>>

\* the forum folded into cinepolis under the screen label of the others
VenueScreening_forum_screen_1(venue, showings) ==
    [ venue    |-> IF venue # "forum" THEN venue ELSE "cinepolis",
      screen   |-> "1",
      showings |-> showings ]

\* the Screening of one of the other venues
VenueScreening(venue, showings) ==
    [ venue    |-> IF venue # "forum" THEN venue ELSE "cinepolis",
      screen   |-> IF venue = "forum" THEN "Open Forum" ELSE "1",
      showings |-> showings ]

\* the loop over the other venues, from the i-th on
RECURSIVE VenueScreenings(_, _)
VenueScreenings(tables, i) ==
    IF i > Len(OtherVenues) THEN <<>>
    ELSE LET venue    == OtherVenues[i]
             showings == Showings(tables[venue].films)
         IN  IF tables[venue].present /\ showings # <<>>
             THEN <<VenueScreening(venue, showings)>> \o VenueScreenings(tables, i + 1)
             ELSE VenueScreenings(tables, i + 1)

convert_to_schedule_format(tables, d, day_number, label) ==
    [ date       |-> d,
      dayNumber  |-> day_number,
      label      |-> label,
      screenings |-> CinepolisScreenings(tables) \o VenueScreenings(tables, 1) ]

-----------------------------------------------------------------------------
(* The schedule store and the two merge scripts *)

\* values extract-feb-schedule.py main() sets
E_LAST_UPDATED == "2026-01-29T12:00:00.000Z"

E_SOURCE == "film schedule curve (29th Jan) - 12 pages.pdf"

\* values merge-schedule.py main() sets
M_LAST_UPDATED == "2026-01-30T12:00:00.000Z"

M_SOURCE == "film schedule curve (29th Jan) - 12 pages.pdf (Image extracted)"

M_NOTE == "Schedule extracted directly from PDF images. Verified against official schedule."

NoStore ==
    [ schedule |-> [lastUpdated |-> "", source |-> "", note |-> "", venues |-> ""],
      days     |-> <<>> ]

NoSummary == [total_showings |-> 0, matched |-> 0, unmatched |-> <<>>]

\* json.dump(schedule_data, f): the chunks written to the file, in order
Serialize(store) ==
    <<[kind |-> "open"], [schedule |-> store.schedule]>>
        \o [i \in 1..Len(store.days) |-> [day |-> store.days[i]]]
        \o <<[kind |-> "close"]>>

\* json.load(f) succeeds: the file holds a whole document
Parseable(file) ==
    /\ Len(file) >= 3
    /\ file[1] = [kind |-> "open"]
    /\ file[Len(file)] = [kind |-> "close"]

\* json.load(f)
Parse(file) ==
    [ schedule |-> file[2].schedule,
      days     |-> [i \in 1..(Len(file) - 3) |-> file[i + 2].day] ]

\* new days left out when the store already has a day of their date
ExtendDays_skip_known_dates(days, new) ==
    days \o SelectSeq(new, LAMBDA n : \A i \in 1..Len(days) : days[i].date # n.date)

\* schedule_data["days"].extend(new_days)
ExtendDays(days, new) == days \o new

\* the note overwritten too, as merge-schedule.py does
SetMetadata_with_note(schedule) ==
    [schedule EXCEPT !.lastUpdated = E_LAST_UPDATED, !.source = E_SOURCE,
                     !.note = M_NOTE]

\* schedule_data["schedule"]["lastUpdated"] = ...; ["source"] = ...
SetMetadata(schedule) ==
    [schedule EXCEPT !.lastUpdated = E_LAST_UPDATED, !.source = E_SOURCE]

\* merge-schedule.py: the documents of the day files that exist, in the
\* order of their day numbers
LoadDayFiles(files) ==
    [ i \in 1..Len(SelectSeq(files, LAMBDA f : f.exists)) |->
        SelectSeq(files, LAMBDA f : f.exists)[i].doc ]

\* a store that keeps the days of the loaded store before the loaded days
MergedStore_keeps_days(loaded, days) ==
    [ schedule |-> [ lastUpdated |-> M_LAST_UPDATED,
                     source      |-> M_SOURCE,
                     note        |-> M_NOTE,
                     venues      |-> loaded.schedule.venues ],
      days     |-> loaded.days \o days ]

\* merge-schedule.py: the new store document, with the venue directory of
\* the loaded store
MergedStore(loaded, days) ==
    [ schedule |-> [ lastUpdated |-> M_LAST_UPDATED,
                     source      |-> M_SOURCE,
                     note        |-> M_NOTE,
                     venues      |-> loaded.schedule.venues ],
      days     |-> days ]

\* the day number and label main() gives the table of a date
DayNumberOf(d) == IF d = "2026-02-03" THEN 5 ELSE 6

LabelOf(d) == IF d = "2026-02-03" THEN "Day 5 - Tuesday" ELSE "Day 6 - Wednesday"

\* new_days = [convert_to_schedule_format(...), ...]
NewDays(tbls) ==
    [ i \in 1..Len(tbls) |->
        convert_to_schedule_format(tbls[i].films, tbls[i].date,
                                   DayNumberOf(tbls[i].date), LabelOf(tbls[i].date)) ]

\* the showings of a list of days, in the order the summary loop visits them
RECURSIVE ScreeningShowings(_)
ScreeningShowings(screenings) ==
    IF screenings = <<>> THEN <<>>
    ELSE Head(screenings).showings \o ScreeningShowings(Tail(screenings))

RECURSIVE DayShowings(_)
DayShowings(days) ==
    IF days = <<>> THEN <<>>
    ELSE ScreeningShowings(Head(days).screenings) \o DayShowings(Tail(days))

\* find_film_match(None, films_db): normalize_title calls None.upper(), which
\* raises AttributeError
MatchRaises(showing) == showing.film = None

\* the summary loop over the showings, from the i-th on
RECURSIVE Summarize(_, _, _, _)
Summarize(showings, db, i, acc) ==
    IF i > Len(showings) THEN acc
    ELSE Summarize(showings, db, i + 1,
           IF find_film_match(showings[i].film, db) # NoFilm
           THEN [acc EXCEPT !.total_showings = @ + 1, !.matched = @ + 1]
           ELSE [acc EXCEPT !.total_showings = @ + 1,
                            !.unmatched = Append(@, showings[i].film)])

\* the state of the specifications in which no script runs
NoRun ==
    /\ script = ""
    /\ store_file = <<>>
    /\ prior = <<>>
    /\ day_tables = <<>>
    /\ day_files = <<>>
    /\ existing = NoStore
    /\ schedule_data = NoStore
    /\ new_days = <<>>
    /\ summary = NoSummary
    /\ failed_at = ""
    /\ runs = 0

-----------------------------------------------------------------------------
(* Specification of the normalizer: a title is drawn, normalize_title is   *)
(* applied to it, and then to its own result.                              *)

InitNormalize ==
    /\ pc = "start"
    /\ title \in Strings(MaxTitleLen)
    /\ normalized = None
    /\ renormalized = None
    /\ match = NoFilm
    /\ day_films = NoTables
    /\ date = ""
    /\ day = NoDay
    /\ other = None
    /\ other_normalized = None
    /\ films = <<>>
    /\ films_db = <<>>
    /\ NoRun

Normalize ==
    /\ pc = "start"
    /\ pc' = "normalized"
    /\ normalized' = normalize_title(title)
    /\ UNCHANGED <<pairvars, title, renormalized, match, day_films, date, day, dbvars, runvars>>

NormalizeAgain ==
    /\ pc = "normalized"
    /\ pc' = "renormalized"
    /\ renormalized' = normalize_title(normalized)
    /\ UNCHANGED <<pairvars, title, normalized, match, day_films, date, day, dbvars, runvars>>

NextNormalize == Normalize \/ NormalizeAgain

SpecNormalize == InitNormalize /\ [][NextNormalize]_vars

\* C1: normalize_title is idempotent: normalizing the key of any title
\* returns that key again.
C1_Idempotent == pc = "renormalized" => renormalized = normalized

-----------------------------------------------------------------------------
(* Specification of the normalizer on two titles that differ only in       *)
(* letter case and in punctuation                                          *)

\* a title without its characters that are neither alphanumeric nor
\* whitespace, its letters taken without their case
Letters(t) == Upper(SelectSeq(t, LAMBDA c : c \in WordChars \/ c \in Whitespace))

InitNormalizePair ==
    /\ pc = "start"
    /\ title \in Strings(MaxTitleLen)
    /\ other \in { u \in Strings(MaxTitleLen) : Letters(u) = Letters(title) }
    /\ normalized = None
    /\ other_normalized = None
    /\ renormalized = None
    /\ match = NoFilm
    /\ day_films = NoTables
    /\ date = ""
    /\ day = NoDay
    /\ films = <<>>
    /\ films_db = <<>>
    /\ NoRun

NormalizePair ==
    /\ pc = "start"
    /\ normalized' = normalize_title(title)
    /\ other_normalized' = normalize_title(other)
    /\ pc' = "pair_normalized"
    /\ UNCHANGED <<title, other, renormalized, match, day_films, date, day, dbvars,
                   runvars>>

NextNormalizePair == NormalizePair

SpecNormalizePair == InitNormalizePair /\ [][NextNormalizePair]_vars

\* C14: two titles that differ only in letter case and in the presence of
\* characters that are neither alphanumeric nor whitespace normalize to the
\* same key.
C14_SameKey ==
    pc = "pair_normalized" => normalized = other_normalized

-----------------------------------------------------------------------------
(* Specification of the matcher: a catalog document and a title are drawn, *)
(* the catalog is loaded and the title is matched against it.              *)

\* titles of the catalog documents
FilmTitles ==
    { <<"A">>, <<"a">>, <<"A", "-">>, <<"A", " ", "B">>, <<"B", "-", "A">> }

Catalogs == UNION {[1..k -> FilmTitles] : k \in 0..MaxFilms}

InitMatch ==
    /\ pc = "start"
    /\ title \in Strings(MaxTitleLen)
    /\ films \in Catalogs
    /\ films_db = <<>>
    /\ match = NoFilm
    /\ normalized = None
    /\ renormalized = None
    /\ day_films = NoTables
    /\ date = ""
    /\ day = NoDay
    /\ other = None
    /\ other_normalized = None
    /\ NoRun

LoadFilms ==
    /\ pc = "start"
    /\ pc' = "loaded"
    /\ films_db' = load_films(films)
    /\ UNCHANGED <<pairvars, fnvars, films, runvars>>

FindFilmMatch ==
    /\ pc = "loaded"
    /\ pc' = "matched"
    /\ match' = find_film_match(title, films_db)
    /\ UNCHANGED <<pairvars, title, normalized, renormalized, day_films, date, day, dbvars, runvars>>

NextMatch == LoadFilms \/ FindFilmMatch

SpecMatch == InitMatch /\ [][NextMatch]_vars

\* entry i of the loaded catalog has the title's normalized key
IsExact(i) == normalize_title(films_db[i].key) = normalize_title(title)

\* entry i's normalized key contains, or is contained in, the title's
IsPartial(i) ==
    \/ IsSubstring(normalize_title(title), normalize_title(films_db[i].key))
    \/ IsSubstring(normalize_title(films_db[i].key), normalize_title(title))

\* C2: find_film_match follows a strict priority order: an entry with an
\* equal normalized key is returned (the first such) even when an earlier
\* entry is a substring match; otherwise the first entry, in insertion
\* order, that matches as a substring either way; otherwise no match.
C2_PriorityOrder ==
    pc = "matched" =>
        LET n == Len(films_db)
        IN  IF \E i \in 1..n : IsExact(i)
            THEN \E i \in 1..n :
                    /\ IsExact(i)
                    /\ \A j \in 1..(i - 1) : ~IsExact(j)
                    /\ match = films_db[i].film
            ELSE IF \E i \in 1..n : IsPartial(i)
            THEN \E i \in 1..n :
                    /\ IsPartial(i)
                    /\ \A j \in 1..(i - 1) : ~IsPartial(j)
                    /\ match = films_db[i].film
            ELSE match = NoFilm

\* an exact match was returned although an earlier entry matches as a
\* substring only
C2_Witness ==
    /\ pc = "matched"
    /\ \E i \in 1..Len(films_db) :
          /\ IsExact(i)
          /\ match = films_db[i].film
          /\ \E j \in 1..(i - 1) : IsPartial(j) /\ ~IsExact(j)

\* film i of the catalog document has the title's normalized key
HasKey(i) == normalize_title(films[i]) = normalize_title(title)

\* C15: when films of the catalog document collide on the lookup key, the
\* first one listed wins: matching a title with that key returns the first
\* film of the document whose title normalizes to the key, never a later
\* one.
C15_FirstInsertedWins ==
    pc = "matched" =>
        \A i \in 1..Len(films) :
            (HasKey(i) /\ \A j \in 1..(i - 1) : ~HasKey(j)) => match = Film(i, films[i])

-----------------------------------------------------------------------------
(* Specification of the assembler: a day's table is drawn and              *)
(* convert_to_schedule_format is applied to it.                            *)

\* 7-tuples of the tables: a film at a slot of the screens, a short film
\* between two slots, and an item without a title
FilmA == <<"10:00", <<"A">>, "Wajda", "Poland", 1977, "Polish", 165>>

FilmBA == <<"11:15", <<"B", "-", "A">>, "Mambety", "Senegal", 1994, "Wolof", 45>>

NoTitleItem == <<"19:00", None, "Lokkur", "India", 2025, "Kannada", 90>>

FilmData == {FilmA, FilmBA, NoTitleItem}

\* the screen keys of a cinepolis table
ScreenIds == {"1", "2"}

Dates == {"2026-02-03", "2026-02-04"}

\* lists of at most n tuples
FilmLists(n) == UNION {[1..k -> FilmData] : k \in 0..n}

\* a venue key: absent, or present with a list of at most n tuples
VenueTables(n) ==
    {[present |-> FALSE, films |-> <<>>]}
        \cup {[present |-> TRUE, films |-> l] : l \in FilmLists(n)}

\* number of tuples of a cinepolis table
RECURSIVE ScreenTuples(_)
ScreenTuples(screens) ==
    IF screens = <<>> THEN 0
    ELSE Len(Head(screens).films) + ScreenTuples(Tail(screens))

\* the dicts of at most k screens with keys among ids, in any order of
\* insertion, with at most n tuples in all
RECURSIVE ScreenDicts(_, _, _)
ScreenDicts(ids, k, n) ==
    IF k = 0 THEN {<<>>}
    ELSE {<<>>} \cup
         UNION { UNION { { <<[screen |-> s, films |-> l]>> \o rest :
                             rest \in ScreenDicts(ids \ {s}, k - 1, n - Len(l)) }
                         : l \in FilmLists(n) }
                 : s \in ids }

\* a cinepolis key: absent, or a dict of at most MaxScreens screens
CinepolisTables(n) ==
    {[present |-> FALSE, screens |-> <<>>]}
        \cup {[present |-> TRUE, screens |-> s] : s \in ScreenDicts(ScreenIds, MaxScreens, n)}

\* number of tuples of a whole table
TableTuples(tables) ==
    ScreenTuples(tables.cinepolis.screens)
      + Len(tables.rajkumar.films) + Len(tables.banashankari.films)
      + Len(tables.openair.films) + Len(tables.forum.films)

InitConvert ==
    /\ pc = "start"
    /\ \E c \in CinepolisTables(MaxTuples) :
       \E r \in VenueTables(MaxTuples - ScreenTuples(c.screens)) :
       \E b \in VenueTables(MaxTuples - ScreenTuples(c.screens) - Len(r.films)) :
       \E o \in VenueTables(MaxTuples - ScreenTuples(c.screens) - Len(r.films)
                              - Len(b.films)) :
       \E f \in VenueTables(MaxTuples - ScreenTuples(c.screens) - Len(r.films)
                              - Len(b.films) - Len(o.films)) :
          day_films = [ cinepolis |-> c, rajkumar |-> r, banashankari |-> b,
                        openair |-> o, forum |-> f ]
    /\ date \in Dates
    /\ day = NoDay
    /\ other = None
    /\ other_normalized = None
    /\ title = None
    /\ normalized = None
    /\ renormalized = None
    /\ films = <<>>
    /\ films_db = <<>>
    /\ match = NoFilm
    /\ NoRun

Convert ==
    /\ pc = "start"
    /\ pc' = "converted"
    /\ day' = convert_to_schedule_format(day_films, date, 5, "Day 5 - Tuesday")
    /\ UNCHANGED <<pairvars, title, normalized, renormalized, match, day_films, date,
                   dbvars, runvars>>

NextConvert == Convert

SpecConvert == InitConvert /\ [][NextConvert]_vars

\* the (venue, screen) pair of Screening i of the returned day
Key(i) == <<day.screenings[i].venue, day.screenings[i].screen>>

\* the slot table of the venue class of a Screening
Slots(s) ==
    IF s.venue = "cinepolis"
    THEN IF s.screen = "Open Forum" THEN TIME_SLOTS.forum ELSE TIME_SLOTS.screen
    ELSE TIME_SLOTS[s.venue]

\* the input list of tuples a Screening was built from
InputFilms(s) ==
    IF s.venue = "cinepolis"
    THEN IF s.screen = "Open Forum" THEN day_films.forum.films
         ELSE LET i == CHOOSE i \in 1..Len(day_films.cinepolis.screens) :
                           day_films.cinepolis.screens[i].screen = s.screen
              IN  day_films.cinepolis.screens[i].films
    ELSE day_films[s.venue].films

\* the Screenings of the returned day with the given (venue, screen) pair
ScreeningsOf(venue, screen) ==
    {i \in 1..Len(day.screenings) : Key(i) = <<venue, screen>>}

\* number of showings of the returned day
RECURSIVE ShowingCount(_)
ShowingCount(screenings) ==
    IF screenings = <<>> THEN 0
    ELSE Len(Head(screenings).showings) + ShowingCount(Tail(screenings))

\* the showing carries the seven fields of the tuple, year and duration
\* as integers
SameFields(showing, film_data) ==
    /\ showing.time = film_data[1]
    /\ showing.film = film_data[2]
    /\ showing.director = film_data[3]
    /\ showing.country = film_data[4]
    /\ showing.year = film_data[5]
    /\ showing.language = film_data[6]
    /\ showing.duration = film_data[7]
    /\ showing.year \in Int
    /\ showing.duration \in Int

\* the showings are the tuples of the list, one for one and in its order
InInputOrder(showings, films_list) ==
    /\ Len(showings) = Len(films_list)
    /\ \A k \in 1..Len(showings) : SameFields(showings[k], films_list[k])

C8_RoundTrip ==
    pc = "converted" =>
        /\ ShowingCount(day.screenings) = TableTuples(day_films)
        /\ \A i \in 1..Len(day.screenings) :
              LET s == day.screenings[i]
              IN  /\ Len(s.showings) = Len(InputFilms(s))
                  /\ \A k \in 1..Len(s.showings) :
                         SameFields(s.showings[k], InputFilms(s)[k])

\* a table with tuples on a cinepolis screen and on another venue was
\* converted
C8_Witness ==
    /\ pc = "converted"
    /\ TableTuples(day_films) = MaxTuples
    /\ ScreenTuples(day_films.cinepolis.screens) >= 1
    /\ Len(day_films.rajkumar.films) >= 1
    /\ ShowingCount(day.screenings) = MaxTuples

\* C9: no two Screenings of the returned day have the same (venue, screen)
\* pair, and the tuples of every non-empty input list are the showings of
\* exactly one Screening, in input order; the forum list is the Screening
\* ("cinepolis", "Open Forum").
C9_Grouping ==
    pc = "converted" =>
        /\ \A i, j \in 1..Len(day.screenings) : i # j => Key(i) # Key(j)
        /\ \A n \in 1..Len(day_films.cinepolis.screens) :
              LET e == day_films.cinepolis.screens[n]
              IN  e.films # <<>> =>
                     /\ Cardinality(ScreeningsOf("cinepolis", e.screen)) = 1
                     /\ \A i \in ScreeningsOf("cinepolis", e.screen) :
                            InInputOrder(day.screenings[i].showings, e.films)
        /\ \A v \in {"rajkumar", "banashankari", "openair"} :
              day_films[v].films # <<>> =>
                 /\ Cardinality(ScreeningsOf(v, "1")) = 1
                 /\ \A i \in ScreeningsOf(v, "1") :
                        InInputOrder(day.screenings[i].showings, day_films[v].films)
        /\ day_films.forum.films # <<>> =>
                 /\ Cardinality(ScreeningsOf("cinepolis", "Open Forum")) = 1
                 /\ \A i \in ScreeningsOf("cinepolis", "Open Forum") :
                        InInputOrder(day.screenings[i].showings, day_films.forum.films)

\* a day with a forum list and two showings on cinepolis screen "1" was
\* converted
C9_Witness ==
    /\ pc = "converted"
    /\ day_films.forum.films # <<>>
    /\ \E i \in ScreeningsOf("cinepolis", "1") : Len(day.screenings[i].showings) = 2
    /\ ScreeningsOf("cinepolis", "Open Forum") # {}

\* C10: no Screening of the returned day has an empty showing list.
C10_NoEmptyScreening ==
    pc = "converted" =>
        \A i \in 1..Len(day.screenings) : day.screenings[i].showings # <<>>

-----------------------------------------------------------------------------
(* Specification of convert_to_schedule_format on tables that hold a tuple *)
(* whose year is not an integer                                            *)

\* a tuple whose year is a string
BadYearItem == <<"21:30", <<"B">>, "Ray", "India", "1955", "Bengali", 125>>

\* the tuples whose year or duration is not an integer
MalformedData == {BadYearItem}

\* lists of at most n tuples, well formed or not
MixedLists(n) == UNION {[1..k -> FilmData \cup MalformedData] : k \in 0..n}

InitMalformed ==
    /\ pc = "start"
    /\ \E c \in MixedLists(1) : \E r \in MixedLists(MaxTuples - Len(c)) :
          day_films = [ NoTables EXCEPT
                          !.cinepolis = [ present |-> TRUE,
                                          screens |-> <<[screen |-> "1", films |-> c]>> ],
                          !.rajkumar = [present |-> TRUE, films |-> r] ]
    /\ date \in Dates
    /\ day = NoDay
    /\ other = None
    /\ other_normalized = None
    /\ title = None
    /\ normalized = None
    /\ renormalized = None
    /\ films = <<>>
    /\ films_db = <<>>
    /\ match = NoFilm
    /\ NoRun

SpecMalformed == InitMalformed /\ [][NextConvert]_vars

\* the tuples of a list whose year and duration are integers, in the order
\* of the list
WellFormedItems(films_list) ==
    SelectSeq(films_list, LAMBDA film_data : film_data \notin MalformedData)

\* C13: a tuple whose year or duration is not an integer is dropped on its
\* own: the showings of every returned Screening are the tuples of its input
\* list that have an integer year and duration, one for one and in the order
\* of the list, and no other showing is returned.
C13_MalformedDropped ==
    pc = "converted" =>
        \A i \in 1..Len(day.screenings) :
            InInputOrder(day.screenings[i].showings,
                         WellFormedItems(InputFilms(day.screenings[i])))

\* place of a venue in the canonical venue order
VenueRank(v) ==
    CASE v = "cinepolis" -> 1
      [] v = "rajkumar" -> 2
      [] v = "banashankari" -> 3
      [] v = "openair" -> 4

\* place of a screen identifier in the ascending order of the identifiers
ScreenRank(sc) ==
    CASE sc = "1" -> 1
      [] sc = "2" -> 2
      [] sc = "Open Forum" -> 3

\* C11: the Screenings of the returned day are ordered venue-first, in the
\* canonical venue order with the Screenings of one venue contiguous, and
\* by ascending screen identifier within a venue.
C11_VenueThenScreenOrder ==
    pc = "converted" =>
        \A i, j \in 1..Len(day.screenings) :
            i < j =>
                \/ VenueRank(day.screenings[i].venue) < VenueRank(day.screenings[j].venue)
                \/ /\ day.screenings[i].venue = day.screenings[j].venue
                   /\ ScreenRank(day.screenings[i].screen)
                          < ScreenRank(day.screenings[j].screen)

-----------------------------------------------------------------------------
(* Specification of the merge scripts: a store file, and the inputs of one *)
(* of the two scripts, are drawn; the script runs from loading the store   *)
(* to writing it back.                                                     *)

\* day documents of stores and of schedule-extracted/
OldDay(d, n, label) ==
    [ date |-> d, dayNumber |-> n, label |-> label,
      screenings |-> << [venue |-> "cinepolis", screen |-> "1",
                         showings |-> <<Showing(FilmA)>>] >> ]

OldDayDocs ==
    << OldDay("2026-01-30", 1, "Day 1 - Friday"),
       OldDay("2026-01-31", 2, "Day 2 - Saturday"),
       OldDay("2026-02-03", 5, "Day 5 - Tuesday") >>

\* the day lists of a stored schedule: at most MaxOldDays days, in
\* chronological order
StoredDayLists ==
    { [i \in 1..Len(ix) |-> OldDayDocs[ix[i]]] :
        ix \in { s \in UNION {[1..k -> 1..Len(OldDayDocs)] : k \in 0..MaxOldDays} :
                   \A i, j \in 1..Len(s) : i < j => s[i] < s[j] } }

\* the metadata blocks of a stored schedule: as merge-schedule.py writes
\* it, or written by hand
StoredBlocks ==
    { [ lastUpdated |-> M_LAST_UPDATED, source |-> M_SOURCE, note |-> M_NOTE,
        venues |-> "venues of the festival" ],
      [ lastUpdated |-> "2026-01-28T09:00:00.000Z", source |-> "draft schedule",
        note |-> "draft", venues |-> "venues of the draft" ] }

\* schedule_data.json before the run: a whole document, or what a failed
\* write left of one
StoredFiles ==
    {Serialize([schedule |-> b, days |-> d]) : b \in StoredBlocks, d \in StoredDayLists}
        \cup {<<[kind |-> "open"]>>}

\* the tables of extract-feb-schedule.py
RunTables ==
    { [NoTables EXCEPT !.cinepolis =
          [present |-> TRUE, screens |-> <<[screen |-> "1", films |-> <<FilmA>>]>>]],
      [NoTables EXCEPT !.rajkumar = [present |-> TRUE, films |-> <<FilmBA>>]],
      [NoTables EXCEPT !.openair = [present |-> TRUE, films |-> <<NoTitleItem>>]] }

RunCatalogs == {<<>>, << <<"A">> >>}

\* a file of schedule-extracted/: missing, or holding a day document
DayFiles ==
    {[exists |-> FALSE, doc |-> NoDay]}
        \cup {[exists |-> TRUE, doc |-> OldDayDocs[i]] : i \in 1..Len(OldDayDocs)}

Init ==
    /\ pc = "main"
    /\ store_file \in StoredFiles
    /\ prior = store_file
    /\ \/ /\ script = "extract"
          /\ day_tables \in UNION {[1..k -> [films : RunTables, date : Dates]]
                                     : k \in 0..MaxNewDays}
          /\ films \in RunCatalogs
          /\ day_files = <<>>
       \/ /\ script = "merge"
          /\ day_tables = <<>>
          /\ films = <<>>
          /\ day_files \in [1..MaxDayFiles -> DayFiles]
    /\ films_db = <<>>
    /\ existing = NoStore
    /\ schedule_data = NoStore
    /\ new_days = <<>>
    /\ summary = NoSummary
    /\ failed_at = ""
    /\ runs = 1
    /\ title = None
    /\ normalized = None
    /\ renormalized = None
    /\ match = NoFilm
    /\ day_films = NoTables
    /\ date = ""
    /\ day = NoDay
    /\ other = None
    /\ other_normalized = None

\* extract-feb-schedule.py main(): json.load of the store and load_films()
ExtractLoad ==
    /\ pc = "main"
    /\ script = "extract"
    /\ IF Parseable(store_file)
       THEN /\ schedule_data' = Parse(store_file)
            /\ films_db' = load_films(films)
            /\ pc' = "assemble"
            /\ UNCHANGED failed_at
       ELSE /\ pc' = "aborted"
            /\ failed_at' = "load"
            /\ UNCHANGED <<schedule_data, films_db>>
    /\ UNCHANGED <<pairvars, runs, fnvars, films, script, store_file, prior, day_tables,
                   day_files, existing, new_days, summary>>

\* the new days are assembled and added, and the metadata is set
ExtractAssemble ==
    /\ pc = "assemble"
    /\ new_days' = NewDays(day_tables)
    /\ schedule_data' = [ schedule |-> SetMetadata(schedule_data.schedule),
                          days     |-> ExtendDays(schedule_data.days, new_days') ]
    /\ pc' = "summary"
    /\ UNCHANGED <<pairvars, runs, fnvars, dbvars, script, store_file, prior, day_tables,
                   day_files, existing, summary, failed_at>>

\* the loop that counts the showings and matches their titles
ExtractSummary ==
    /\ pc = "summary"
    /\ LET showings == DayShowings(new_days)
       IN  IF \E i \in 1..Len(showings) : MatchRaises(showings[i])
           THEN /\ pc' = "aborted"
                /\ failed_at' = "summary"
                /\ UNCHANGED summary
           ELSE /\ pc' = "write"
                /\ summary' = Summarize(showings, films_db, 1, NoSummary)
                /\ UNCHANGED failed_at
    /\ UNCHANGED <<pairvars, runs, fnvars, dbvars, script, store_file, prior, day_tables,
                   day_files, existing, schedule_data, new_days>>

\* merge-schedule.py main(): json.load of the store and of the day files
\* that exist, in day number order
MergeLoad ==
    /\ pc = "main"
    /\ script = "merge"
    /\ IF Parseable(store_file)
       THEN /\ existing' = Parse(store_file)
            /\ new_days' = LoadDayFiles(day_files)
            /\ pc' = "build"
            /\ UNCHANGED failed_at
       ELSE /\ pc' = "aborted"
            /\ failed_at' = "load"
            /\ UNCHANGED <<existing, new_days>>
    /\ UNCHANGED <<pairvars, runs, fnvars, dbvars, script, store_file, prior, day_tables,
                   day_files, schedule_data, summary>>

\* the new store document is built and the showings are counted
MergeBuild ==
    /\ pc = "build"
    /\ schedule_data' = MergedStore(existing, new_days)
    /\ summary' = [NoSummary EXCEPT !.total_showings = Len(DayShowings(new_days))]
    /\ pc' = "write"
    /\ UNCHANGED <<pairvars, runs, fnvars, dbvars, script, store_file, prior, day_tables,
                   day_files, existing, new_days, failed_at>>

\* open(path, 'w'): the file is truncated
OpenOutput ==
    /\ pc = "write"
    /\ store_file' = <<>>
    /\ pc' = "dump"
    /\ UNCHANGED <<pairvars, runs, fnvars, dbvars, script, prior, day_tables, day_files,
                   existing, schedule_data, new_days, summary, failed_at>>

\* json.dump writes the next chunk of the document; after the last one the
\* file is closed and the run ends
DumpChunk ==
    /\ pc = "dump"
    /\ store_file' = Append(store_file, Serialize(schedule_data)[Len(store_file) + 1])
    /\ pc' = IF Len(store_file') = Len(Serialize(schedule_data)) THEN "done" ELSE "dump"
    /\ UNCHANGED <<pairvars, runs, fnvars, dbvars, script, prior, day_tables, day_files,
                   existing, schedule_data, new_days, summary, failed_at>>

\* a write raises OSError (the disk is full, the device fails): the run ends
\* with what was written so far
DumpFails ==
    /\ pc = "dump"
    /\ pc' = "aborted"
    /\ failed_at' = "write"
    /\ UNCHANGED <<pairvars, runs, fnvars, dbvars, script, store_file, prior, day_tables,
                   day_files, existing, schedule_data, new_days, summary>>

Next ==
    \/ ExtractLoad
    \/ ExtractAssemble
    \/ ExtractSummary
    \/ MergeLoad
    \/ MergeBuild
    \/ OpenOutput
    \/ DumpChunk
    \/ DumpFails

Spec == Init /\ [][Next]_vars

\* the day list of the store the run loaded, and of the store it wrote
PriorDays == Parse(prior).days

WrittenDays == Parse(store_file).days

\* a run of the append-mode script (extract-feb-schedule.py) that wrote the
\* store
AppendDone == pc = "done" /\ script = "extract"

\* C3: an append-mode run on a store of M days with N new days writes a
\* store of M + N days: the M prior days, unchanged and in their order, then
\* the N new days in the order given, a new day whose date the store already
\* has included.
C3_AppendGrows ==
    AppendDone =>
        /\ Parseable(store_file)
        /\ Len(WrittenDays) = Len(PriorDays) + Len(day_tables)
        /\ \A i \in 1..Len(PriorDays) : WrittenDays[i] = PriorDays[i]
        /\ \A j \in 1..Len(day_tables) :
              /\ WrittenDays[Len(PriorDays) + j] = new_days[j]
              /\ new_days[j].date = day_tables[j].date

\* a run has written a store that holds a prior day and a new day of the
\* same date
C3_Witness ==
    /\ AppendDone
    /\ \E i \in 1..Len(PriorDays) : \E j \in 1..Len(day_tables) :
          /\ PriorDays[i].date = day_tables[j].date
          /\ WrittenDays[i].date = WrittenDays[Len(PriorDays) + j].date

\* C4 (as stated): after an append-mode run lastUpdated and source of the
\* written store are the run's values, and the note is not the one the
\* loaded store had.
C4_MetadataOverwritten ==
    AppendDone =>
        /\ Parse(store_file).schedule.lastUpdated = E_LAST_UPDATED
        /\ Parse(store_file).schedule.source = E_SOURCE
        /\ Parse(store_file).schedule.note # Parse(prior).schedule.note

\* C4 (amended): after an append-mode run lastUpdated and source of the
\* written store are the run's values; note and the venue directory are
\* those of the loaded store.
C4_MetadataPartlyOverwritten ==
    AppendDone =>
        /\ Parse(store_file).schedule.lastUpdated = E_LAST_UPDATED
        /\ Parse(store_file).schedule.source = E_SOURCE
        /\ Parse(store_file).schedule.note = Parse(prior).schedule.note
        /\ Parse(store_file).schedule.venues = Parse(prior).schedule.venues

\* a run has overwritten lastUpdated and source of a hand-written store and
\* left its note
C4_Witness ==
    /\ AppendDone
    /\ Parse(prior).schedule.lastUpdated # E_LAST_UPDATED
    /\ Parse(prior).schedule.source # E_SOURCE
    /\ Parse(store_file).schedule.lastUpdated = E_LAST_UPDATED
    /\ Parse(store_file).schedule.note = "draft"

\* C5: a run that ended has either completed, with the whole updated store
\* on disk, or aborted, with the file as it was before the run.
C5_NoPartialStore ==
    /\ pc = "done" => store_file = Serialize(schedule_data)
    /\ pc = "aborted" => store_file = prior

\* C6: the append-mode run never ends in the summary loop: whatever the
\* titles of the new showings, it goes on to the write.
C6_SummaryNeverBlocks == failed_at # "summary"

\* a run of the replace-mode script (merge-schedule.py) that wrote the store
ReplaceDone == pc = "done" /\ script = "merge"

\* the day numbers of the day files that exist
ExistingFiles == { n \in DOMAIN day_files : day_files[n].exists }

\* the i-th day file that exists, counting by ascending day number
FileOf(i) ==
    CHOOSE n \in ExistingFiles : Cardinality({ m \in ExistingFiles : m <= n }) = i

\* C12: a replace-mode run writes a store whose day list is exactly the
\* documents of the day files that exist, in ascending order of the files'
\* day numbers (no day of the prior store is carried over), and whose venue
\* directory is the venue directory of the prior store.
C12_ReplaceDays ==
    ReplaceDone =>
        /\ Parseable(store_file)
        /\ Len(WrittenDays) = Cardinality(ExistingFiles)
        /\ \A i \in 1..Len(WrittenDays) : WrittenDays[i] = day_files[FileOf(i)].doc
        /\ Parse(store_file).schedule.venues = Parse(prior).schedule.venues

\* a replace-mode run on a store of two days, with one day file missing
\* and one present, has written a store that lacks a day of the prior store
C12_Witness ==
    /\ ReplaceDone
    /\ Len(PriorDays) = 2
    /\ ExistingFiles = {2}
    /\ WrittenDays = <<day_files[2].doc>>
    /\ \E i \in 1..2 : \A j \in 1..Len(WrittenDays) : WrittenDays[j] # PriorDays[i]
    /\ Parse(store_file).schedule.venues = "venues of the draft"

-----------------------------------------------------------------------------
(* Specification of repeated runs: on a whole store in chronological       *)
(* order, the two scripts run one after the other, in any order, each run  *)
(* on the file the run before left                                        *)

\* the dates of the new days of extract-feb-schedule.py, in its order
RunDates == <<"2026-02-03", "2026-02-04">>

\* the day tables of extract-feb-schedule.py: at most MaxNewDays of its
\* dates, kept in its order, each with a table
RunDayTables ==
    UNION { { [i \in 1..Len(ix) |-> [films |-> t[i], date |-> RunDates[ix[i]]]] :
                t \in [1..Len(ix) -> RunTables] }
            : ix \in { s \in UNION {[1..k -> 1..Len(RunDates)] : k \in 0..MaxNewDays} :
                         \A i, j \in 1..Len(s) : i < j => s[i] < s[j] } }

\* the files of schedule-extracted/: the file of a day number is missing
\* or holds the document of that day
RunDayFiles ==
    LET n == IF MaxDayFiles < Len(OldDayDocs) THEN MaxDayFiles ELSE Len(OldDayDocs)
    IN  { f \in [1..n -> DayFiles] : \A i \in 1..n : f[i].exists => f[i].doc = OldDayDocs[i] }

InitRuns ==
    /\ pc = "main"
    /\ store_file \in {Serialize([schedule |-> b, days |-> d]) :
                          b \in StoredBlocks, d \in StoredDayLists}
    /\ prior = store_file
    /\ script \in {"extract", "merge"}
    /\ day_tables \in RunDayTables
    /\ films \in RunCatalogs
    /\ day_files \in RunDayFiles
    /\ films_db = <<>>
    /\ existing = NoStore
    /\ schedule_data = NoStore
    /\ new_days = <<>>
    /\ summary = NoSummary
    /\ failed_at = ""
    /\ runs = 1
    /\ title = None
    /\ normalized = None
    /\ renormalized = None
    /\ match = NoFilm
    /\ day_films = NoTables
    /\ date = ""
    /\ day = NoDay
    /\ other = None
    /\ other_normalized = None

\* a script is started again, on the file the run before left
Rerun ==
    /\ pc \in {"done", "aborted"}
    /\ runs < MaxRuns
    /\ runs' = runs + 1
    /\ script' \in {"extract", "merge"}
    /\ pc' = "main"
    /\ prior' = store_file
    /\ films_db' = <<>>
    /\ existing' = NoStore
    /\ schedule_data' = NoStore
    /\ new_days' = <<>>
    /\ summary' = NoSummary
    /\ failed_at' = ""
    /\ UNCHANGED <<pairvars, fnvars, films, store_file, day_tables, day_files>>

NextRuns ==
    \/ ExtractLoad
    \/ ExtractAssemble
    \/ ExtractSummary
    \/ MergeLoad
    \/ MergeBuild
    \/ OpenOutput
    \/ DumpChunk
    \/ DumpFails
    \/ Rerun

SpecRuns == InitRuns /\ [][NextRuns]_vars

\* place of a date in the calendar
DateRank(d) ==
    CASE d = "2026-01-30" -> 1
      [] d = "2026-01-31" -> 2
      [] d = "2026-02-03" -> 5
      [] d = "2026-02-04" -> 6

\* C16: after any sequence of append-mode and replace-mode runs on a store
\* in chronological order, the dates of consecutive days of the written
\* store are non-decreasing.
C16_Chronological ==
    pc = "done" =>
        \A i \in 1..(Len(WrittenDays) - 1) :
            DateRank(WrittenDays[i].date) <= DateRank(WrittenDays[i + 1].date)

====
